---- MODULE Spec2Model ----
(***************************************************************************)
(* Model of packages/sol-cli/cmd/deploy.js: the `deploy` command of the    *)
(* contract deployment CLI.  One behaviour is one invocation of the        *)
(* command's async action.  A state is taken at every point where the      *)
(* action is suspended on an `await` (balance query, factory.deploy,       *)
(* contract.deployed); everything the code runs synchronously between two  *)
(* awaits is one step.                                                     *)
(*                                                                         *)
(* Strings that the code inspects character by character (addresses) are   *)
(* sequences of one-character strings.  `undefined` is the one-element     *)
(* sequence Undefined, the empty string is <<>>.                           *)
(***************************************************************************)
EXTENDS Integers, Sequences, FiniteSets, TLC

\* Number of hex digits of an address.  On chain it is 40; the model keeps
\* the shape (prefix "0x" followed by a fixed number of hex digits) with a
\* shorter length.
AddrHexLen == 2

\* The wallet's transaction count when the command starts is 0..MaxStartNonce.
MaxStartNonce == 1

Kinds == {"bridge", "erc20Handler", "genericHandler", "erc20", "asset"}

Undefined == <<"undefined">>

NotDeployed == <<"Not Deployed">>

HexChars == <<"0", "1", "2", "3", "4", "5", "6", "7", "8", "9",
              "a", "b", "c", "d", "e", "f">>

HexSet == {HexChars[i] : i \in 1..Len(HexChars)} \cup {"A", "B", "C", "D", "E", "F"}

Repeat(c, n) == [i \in 1..n |-> c]

\* utils.isValidAddress: a fixed-length hex string with the "0x" prefix.
isValidAddress(address) ==
  /\ Len(address) = AddrHexLen + 2
  /\ address[1] = "0"
  /\ address[2] = "x"
  /\ \A i \in 3..Len(address) : address[i] \in HexSet

\* JavaScript truthiness of a string-or-undefined value.
Truthy(v) == v # Undefined /\ v # <<>>

\* contract.address of the contract created by the wallet's n-th transaction.
\* The chain derives it from (sender, nonce); the model keeps it injective in
\* the nonce and always a valid address.
FreshAddr(n) ==
  <<"0", "x">> \o [i \in 1..AddrHexLen |->
                     HexChars[((n \div (16 ^ (AddrHexLen - i))) % 16) + 1]]

\* Values of --bridgeAddress tried: the default "", valid addresses of
\* contracts that already exist (lower and mixed case), and invalid strings
\* (too short, too long, a non-hex digit, missing prefix).
BridgeAddressInputs ==
  { <<>>,
    <<"0", "x">> \o Repeat("f", AddrHexLen),
    <<"0", "x">> \o Repeat("E", AddrHexLen),
    <<"0", "x">> \o Repeat("f", AddrHexLen - 1),
    <<"0", "x">> \o Repeat("f", AddrHexLen + 1),
    <<"0", "x">> \o Repeat("f", AddrHexLen - 1) \o <<"g">>,
    Repeat("f", AddrHexLen + 2) }

\* The field of args in which each deploy function records its address.
FieldOf ==
  [bridge |-> "bridgeAddress", erc20Handler |-> "erc20HandlerContract",
   genericHandler |-> "genericHandlerContract", erc20 |-> "erc20Contract",
   asset |-> "ChainAssetContract"]

Fields == {FieldOf[k] : k \in Kinds}

\* Order of the calls in the `if (args.all)` branch.
AllOrder == <<"bridge", "erc20Handler", "genericHandler", "erc20">>

\* Order of the `if (args.<kind>)` statements in the else branch.
Canonical == <<"bridge", "erc20Handler", "genericHandler", "erc20", "asset">>

VARIABLES
  args,      \* the command object: flags, --bridgeAddress, recorded addresses, cost
  pc,        \* "setup", "getBalance", a kind, "endBalance", "done", "failed"
  phase,     \* inside a deploy function: "call" (entered), "sent" (awaiting deployed())
  deployed,  \* the local `deployed` of the else branch
  startBal,  \* the local `startBal`
  contract,  \* the local `contract` of the running deploy function (its address)
  error,     \* the error the action rejected with, or "none"
  nonce,     \* chain: the wallet's transaction count
  balance,   \* chain: the wallet's balance, relative to its initial balance
  pending,   \* chain: creation transactions submitted and not yet mined
  calls,     \* history: every network call issued, in order
  txs,       \* history: every creation transaction accepted, in order
  attempts,  \* history: the deploy functions called, in order
  writes,    \* history: number of assignments to each address field
  supplied,  \* history: the value of --bridgeAddress the caller gave
  console,   \* console.log lines (the summary and the config apart)
  summary,   \* the address lines printed by displayLog
  config     \* the object printed by createConfig

vars == <<args, pc, phase, deployed, startBal, contract, error, nonce, balance,
          pending, calls, txs, attempts, writes, supplied, console, summary, config>>

NoSummary ==
  [Bridge |-> <<>>, Erc20Handler |-> <<>>, GenericHandler |-> <<>>,
   Erc20 |-> <<>>, ChainAsset |-> <<>>]

NoConfig ==
  [name |-> "", bridge |-> <<>>, erc20Handler |-> <<>>, genericHandler |-> <<>>,
   startBlock |-> "", http |-> ""]

Init ==
  /\ args \in [all : BOOLEAN, bridge : BOOLEAN, erc20Handler : BOOLEAN,
               genericHandler : BOOLEAN, erc20 : BOOLEAN, asset : BOOLEAN,
               config : BOOLEAN, bridgeAddress : BridgeAddressInputs,
               erc20HandlerContract : {Undefined},
               genericHandlerContract : {Undefined},
               erc20Contract : {Undefined}, ChainAssetContract : {Undefined},
               cost : {{}}]
  /\ pc = "setup"
  /\ phase = "call"
  /\ deployed = FALSE
  /\ startBal = 0
  /\ contract = Undefined
  /\ error = "none"
  /\ nonce \in 0..MaxStartNonce
  /\ balance = 0
  /\ pending = {}
  /\ calls = <<>>
  /\ txs = <<>>
  /\ attempts = <<>>
  /\ writes = [f \in Fields |-> 0]
  /\ supplied = args.bridgeAddress
  /\ console = <<>>
  /\ summary = NoSummary
  /\ config = NoConfig

----------------------------------------------------------------------------
\* Control flow of the action body.

NoTargetSpecified == "must specify --all or specific contracts to deploy"

IndexOf(seq, x) == CHOOSE i \in 1..Len(seq) : seq[i] = x

\* NextKind with the else branch entered for --all as well: the asset step runs.
NextKind_allCanonical(from) ==
  LET order == Canonical
      first == IF from = "none" THEN 1 ELSE IndexOf(order, from) + 1
      cands == {i \in first..Len(order) : args.all \/ args[order[i]]}
  IN  IF cands = {} THEN "none"
      ELSE order[CHOOSE i \in cands : \A j \in cands : i <= j]

\* NextKind with the erc20 step guarded by args.erc20Handler.
NextKind_wrongFlag(from) ==
  LET order == IF args.all THEN AllOrder ELSE Canonical
      first == IF from = "none" THEN 1 ELSE IndexOf(order, from) + 1
      flag(k) == IF k = "erc20" THEN "erc20Handler" ELSE k
      cands == {i \in first..Len(order) : args.all \/ args[flag(order[i])]}
  IN  IF cands = {} THEN "none"
      ELSE order[CHOOSE i \in cands : \A j \in cands : i <= j]

\* The next deploy function the action calls after `from` returned ("none":
\* from the top), or "none" when the branch is exhausted.
NextKind(from) ==
  LET order == IF args.all THEN AllOrder ELSE Canonical
      first == IF from = "none" THEN 1 ELSE IndexOf(order, from) + 1
      cands == {i \in first..Len(order) : args.all \/ args[order[i]]}
  IN  IF cands = {} THEN "none"
      ELSE order[CHOOSE i \in cands : \A j \in cands : i <= j]

\* Throw with the rejection caught by the action, which goes on to its report.
Throw_swallow(e) ==
  /\ pc' = "endBalance"
  /\ phase' = "call"
  /\ error' = e
  /\ UNCHANGED <<deployed, attempts>>

\* A throw, or a rejected await: the async action rejects and runs no further.
Throw(e) ==
  /\ pc' = "failed"
  /\ phase' = "call"
  /\ error' = e
  /\ UNCHANGED <<deployed, attempts>>

\* Resume without the `if (!deployed) throw`.
Resume_noCheck(from) ==
  LET nxt == NextKind(from)
      dep == IF args.all \/ from = "none" THEN deployed ELSE TRUE
  IN  /\ deployed' = dep
      /\ phase' = "call"
      /\ error' = error
      /\ IF nxt # "none"
         THEN pc' = nxt /\ attempts' = Append(attempts, nxt)
         ELSE pc' = "endBalance" /\ attempts' = attempts

\* The action continues after `from` returned: `deployed = true` in the else
\* branch, then the following `if`s up to the next call, or the
\* `if (!deployed) throw`, or the end of the branch.
Resume(from) ==
  LET nxt == NextKind(from)
      dep == IF args.all \/ from = "none" THEN deployed ELSE TRUE
  IN  /\ deployed' = dep
      /\ IF nxt # "none"
         THEN /\ pc' = nxt
              /\ phase' = "call"
              /\ error' = error
              /\ attempts' = Append(attempts, nxt)
         ELSE IF args.all \/ dep
         THEN /\ pc' = "endBalance"
              /\ phase' = "call"
              /\ error' = error
              /\ attempts' = attempts
         ELSE /\ pc' = "failed"
              /\ phase' = "call"
              /\ error' = NoTargetSpecified
              /\ attempts' = attempts

----------------------------------------------------------------------------
\* Report builder.

\* displayLog with the Erc20 line printed without the "Not Deployed" fallback.
displayLog_noMarker(a) ==
  [Bridge |-> IF Truthy(a.bridgeAddress) THEN a.bridgeAddress ELSE NotDeployed,
   Erc20Handler |-> IF Truthy(a.erc20HandlerContract)
                    THEN a.erc20HandlerContract ELSE NotDeployed,
   GenericHandler |-> IF Truthy(a.genericHandlerContract)
                      THEN a.genericHandlerContract ELSE NotDeployed,
   Erc20 |-> a.erc20Contract,
   ChainAsset |-> IF Truthy(a.ChainAssetContract)
                  THEN a.ChainAssetContract ELSE NotDeployed]

displayLog(a) ==
  [Bridge |-> IF Truthy(a.bridgeAddress) THEN a.bridgeAddress ELSE NotDeployed,
   Erc20Handler |-> IF Truthy(a.erc20HandlerContract)
                    THEN a.erc20HandlerContract ELSE NotDeployed,
   GenericHandler |-> IF Truthy(a.genericHandlerContract)
                      THEN a.genericHandlerContract ELSE NotDeployed,
   Erc20 |-> IF Truthy(a.erc20Contract) THEN a.erc20Contract ELSE NotDeployed,
   ChainAsset |-> IF Truthy(a.ChainAssetContract)
                  THEN a.ChainAssetContract ELSE NotDeployed]

createConfig(a) ==
  [name |-> "eth", bridge |-> a.bridgeAddress,
   erc20Handler |-> a.erc20HandlerContract,
   genericHandler |-> a.genericHandlerContract,
   startBlock |-> "0", http |-> "false"]

----------------------------------------------------------------------------
\* The action, up to the first deploy function.

\* await setupParentArgs(args, args.parent): resolves url, wallet and gas
\* parameters into args; no field the model tracks changes.
setupParentArgs ==
  /\ pc = "setup"
  /\ pc' = "getBalance"
  /\ UNCHANGED <<args, phase, deployed, startBal, contract, error, nonce, balance,
                 pending, calls, txs, attempts, writes, supplied, console,
                 summary, config>>

\* let startBal = await args.provider.getBalance(...); console.log(...); then
\* the branch on args.all up to the first call.
deployCmd_start ==
  /\ pc = "getBalance"
  /\ calls' = Append(calls, [op |-> "getBalance", kind |-> "none"])
  /\ \/ /\ startBal' = balance
        /\ console' = Append(console, "Deploying contracts...")
        /\ Resume("none")
     \/ /\ Throw("network")
        /\ UNCHANGED <<startBal, console>>
  /\ UNCHANGED <<args, contract, nonce, balance, pending, txs, writes, supplied,
                 summary, config>>

\* args.cost = startBal.sub(await getBalance(...)); displayLog(args);
\* if (args.config) createConfig(args).
deployCmd_finish ==
  /\ pc = "endBalance"
  /\ calls' = Append(calls, [op |-> "getBalance", kind |-> "none"])
  /\ \/ /\ args' = [args EXCEPT !.cost = {startBal - balance}]
        /\ summary' = displayLog(args')
        /\ IF args.config
           THEN /\ config' = createConfig(args')
                /\ console' = Append(console,
                     "EVM Configuration, please copy this into your ChainBridge config file:")
           ELSE UNCHANGED <<config, console>>
        /\ pc' = "done"
        /\ UNCHANGED <<phase, error, deployed, attempts>>
     \/ /\ Throw("network")
        /\ UNCHANGED <<args, summary, config, console>>
  /\ UNCHANGED <<startBal, contract, nonce, balance, pending, txs, writes, supplied>>

----------------------------------------------------------------------------
\* The deploy functions.

\* let contract = await factory.deploy(<constructor args>, {gasPrice, gasLimit}):
\* the creation transaction is signed with the wallet's nonce and sent; the
\* await resolves once the node accepted it, or rejects.
FactoryDeploy(kind, ctorBridge) ==
  /\ calls' = Append(calls, [op |-> "deploy", kind |-> kind])
  /\ \/ /\ txs' = Append(txs, [kind |-> kind, bridge |-> ctorBridge,
                               address |-> FreshAddr(nonce)])
        /\ pending' = pending \cup {kind}
        /\ contract' = FreshAddr(nonce)
        /\ nonce' = nonce + 1
        /\ phase' = "sent"
        /\ UNCHANGED <<pc, error, deployed, attempts>>
     \/ /\ Throw("network")
        /\ UNCHANGED <<txs, pending, contract, nonce>>
  /\ UNCHANGED <<args, startBal, balance, writes, supplied, console, summary, config>>

\* await contract.deployed(); args.<field> = contract.address (`address`);
\* console.log(msg); return to the action.  The await rejects when the
\* transaction reverts (mined, fee paid) or the wait gives up (still pending).
ContractDeployed(kind, field, address, msg) ==
  /\ calls' = Append(calls, [op |-> "deployed", kind |-> kind])
  /\ \/ /\ pending' = pending \ {kind}
        /\ balance' = balance - 1
        /\ args' = [args EXCEPT ![field] = address]
        /\ writes' = [writes EXCEPT ![field] = @ + 1]
        /\ console' = Append(console, msg)
        /\ contract' = Undefined
        /\ Resume(kind)
     \/ /\ pending' = pending \ {kind}
        /\ balance' = balance - 1
        /\ Throw("network")
        /\ UNCHANGED <<args, writes, console, contract>>
     \/ /\ Throw("network")
        /\ UNCHANGED <<pending, balance, args, writes, console, contract>>
  /\ UNCHANGED <<startBal, nonce, txs, supplied, summary, config>>

\* return from a handler's deploy function without deploying.
SkipDeploy(kind, msg) ==
  /\ console' = Append(console, msg)
  /\ Resume(kind)
  /\ UNCHANGED <<args, startBal, contract, nonce, balance, pending, calls, txs,
                 writes, supplied, summary, config>>

\* deployBridgeContract that keeps a bridge address already present in args.
deployBridgeContract_keepSupplied ==
  /\ pc = "bridge"
  /\ \/ /\ phase = "call"
        /\ FactoryDeploy("bridge", Undefined)
     \/ /\ phase = "sent"
        /\ ContractDeployed("bridge", "bridgeAddress",
                            IF Truthy(args.bridgeAddress) THEN args.bridgeAddress
                            ELSE contract,
                            "Bridge contract deployed")

deployBridgeContract ==
  /\ pc = "bridge"
  /\ \/ /\ phase = "call"
        /\ FactoryDeploy("bridge", Undefined)
     \/ /\ phase = "sent"
        /\ ContractDeployed("bridge", "bridgeAddress", contract, "Bridge contract deployed")

\* deployERC20 without `await contract.deployed()`: the address is recorded
\* and the function returns while the transaction is still pending.
deployERC20_noAwait ==
  /\ pc = "erc20"
  /\ phase = "call"
  /\ calls' = Append(calls, [op |-> "deploy", kind |-> "erc20"])
  /\ txs' = Append(txs, [kind |-> "erc20", bridge |-> Undefined,
                         address |-> FreshAddr(nonce)])
  /\ pending' = pending \cup {"erc20"}
  /\ nonce' = nonce + 1
  /\ args' = [args EXCEPT !.erc20Contract = FreshAddr(nonce)]
  /\ writes' = [writes EXCEPT !.erc20Contract = @ + 1]
  /\ console' = Append(console, "ERC20 contract deployed")
  /\ Resume("erc20")
  /\ UNCHANGED <<startBal, contract, balance, supplied, summary, config>>

deployERC20 ==
  /\ pc = "erc20"
  /\ \/ /\ phase = "call"
        /\ FactoryDeploy("erc20", Undefined)
     \/ /\ phase = "sent"
        /\ ContractDeployed("erc20", "erc20Contract", contract, "ERC20 contract deployed")

\* deployERC20Handler that throws on an invalid bridge address.
deployERC20Handler_throws ==
  /\ pc = "erc20Handler"
  /\ \/ /\ phase = "call"
        /\ ~isValidAddress(args.bridgeAddress)
        /\ console' = Append(console,
             "ERC20Handler contract failed to deploy due to invalid bridge address")
        /\ Throw("invalid bridge address")
        /\ UNCHANGED <<args, startBal, contract, nonce, balance, pending, calls, txs,
                       writes, supplied, summary, config>>
     \/ /\ phase = "call"
        /\ isValidAddress(args.bridgeAddress)
        /\ FactoryDeploy("erc20Handler", args.bridgeAddress)
     \/ /\ phase = "sent"
        /\ ContractDeployed("erc20Handler", "erc20HandlerContract", contract,
                            "ERC20Handler contract deployed")

deployERC20Handler ==
  /\ pc = "erc20Handler"
  /\ \/ /\ phase = "call"
        /\ ~isValidAddress(args.bridgeAddress)
        /\ SkipDeploy("erc20Handler",
             "ERC20Handler contract failed to deploy due to invalid bridge address")
     \/ /\ phase = "call"
        /\ isValidAddress(args.bridgeAddress)
        /\ FactoryDeploy("erc20Handler", args.bridgeAddress)
     \/ /\ phase = "sent"
        /\ ContractDeployed("erc20Handler", "erc20HandlerContract", contract,
                            "ERC20Handler contract deployed")

\* deployGenericHandler without the isValidAddress guard.
deployGenericHandler_noCheck ==
  /\ pc = "genericHandler"
  /\ \/ /\ phase = "call"
        /\ FactoryDeploy("genericHandler", args.bridgeAddress)
     \/ /\ phase = "sent"
        /\ ContractDeployed("genericHandler", "genericHandlerContract", contract,
                            "GenericHandler contract deployed")

deployGenericHandler ==
  /\ pc = "genericHandler"
  /\ \/ /\ phase = "call"
        /\ ~isValidAddress(args.bridgeAddress)
        /\ SkipDeploy("genericHandler",
             "GenericHandler contract failed to deploy due to invalid bridge address")
     \/ /\ phase = "call"
        /\ isValidAddress(args.bridgeAddress)
        /\ FactoryDeploy("genericHandler", args.bridgeAddress)
     \/ /\ phase = "sent"
        /\ ContractDeployed("genericHandler", "genericHandlerContract", contract,
                            "GenericHandler contract deployed")

\* deployAssetStore that records its address in args.erc20Contract.
deployAssetStore_wrongField ==
  /\ pc = "asset"
  /\ \/ /\ phase = "call"
        /\ FactoryDeploy("asset", Undefined)
     \/ /\ phase = "sent"
        /\ ContractDeployed("asset", "erc20Contract", contract,
                            "ChainAsset contract deployed")

deployAssetStore ==
  /\ pc = "asset"
  /\ \/ /\ phase = "call"
        /\ FactoryDeploy("asset", Undefined)
     \/ /\ phase = "sent"
        /\ ContractDeployed("asset", "ChainAssetContract", contract,
                            "ChainAsset contract deployed")

Next ==
  \/ setupParentArgs
  \/ deployCmd_start
  \/ deployBridgeContract
  \/ deployERC20Handler
  \/ deployGenericHandler
  \/ deployERC20
  \/ deployAssetStore
  \/ deployCmd_finish

Spec == Init /\ [][Next]_vars

----------------------------------------------------------------------------
\* Vocabulary of the properties.

Handlers == {"erc20Handler", "genericHandler"}

Explicit == ~args.all

Selection == {k \in Kinds : args[k]}

IsRequested(k) == args[k]

\* The canonical order restricted to the requested kinds.
RequestedSeq == SelectSeq(Canonical, IsRequested)

IsPrefix(s, t) == Len(s) <= Len(t) /\ \A i \in 1..Len(s) : s[i] = t[i]

TxKinds == [i \in 1..Len(txs) |-> txs[i].kind]

GetBalanceCall == [op |-> "getBalance", kind |-> "none"]

DiagOf ==
  [erc20Handler |-> "ERC20Handler contract failed to deploy due to invalid bridge address",
   genericHandler |-> "GenericHandler contract failed to deploy due to invalid bridge address"]

InConsole(msg) == \E i \in 1..Len(console) : console[i] = msg

LineOf ==
  [bridge |-> "Bridge", erc20Handler |-> "Erc20Handler",
   genericHandler |-> "GenericHandler", erc20 |-> "Erc20", asset |-> "ChainAsset"]

\* Kind k was deployed in this invocation: its creation transaction was mined
\* and its deploy function recorded the address.
DeployedHere(k) ==
  /\ writes[FieldOf[k]] >= 1
  /\ k \notin pending
  /\ \E i \in 1..Len(txs) : txs[i].kind = k /\ txs[i].address = args[FieldOf[k]]

TypeOK ==
  /\ pc \in Kinds \cup {"setup", "getBalance", "endBalance", "done", "failed"}
  /\ phase \in {"call", "sent"}
  /\ pending \subseteq Kinds
  /\ \A f \in Fields : writes[f] \in 0..1

----------------------------------------------------------------------------
\* C1 (as stated): an invocation with an explicit, empty selection fails with
\* the NoTargetSpecified error and has issued zero network calls when it fails.
C1_Original ==
  (Explicit /\ Selection = {} /\ error = NoTargetSpecified) => calls = <<>>

\* C1 (amended): an invocation with an explicit, empty selection never calls a
\* deploy function and never submits a creation transaction; it stops right
\* after the initial balance query, the only network call it issues, with
\* NoTargetSpecified when the query succeeded and with the network error when
\* it did not; and NoTargetSpecified is raised for no other selection.
C1_NoTargetAfterBalanceQuery ==
  /\ (Explicit /\ Selection = {})
       => /\ pc \in {"setup", "getBalance", "failed"}
          /\ txs = <<>>
          /\ attempts = <<>>
          /\ pending = {}
          /\ \A i \in 1..Len(calls) : calls[i] = GetBalanceCall
          /\ pc = "failed"
               => /\ calls = <<GetBalanceCall>>
                  /\ error \in {NoTargetSpecified, "network"}
                  /\ error = NoTargetSpecified <=> InConsole("Deploying contracts...")
  /\ error = NoTargetSpecified => (Explicit /\ Selection = {})

C1_Witness ==
  /\ Explicit
  /\ Selection = {}
  /\ error = NoTargetSpecified
  /\ calls = <<GetBalanceCall>>

----------------------------------------------------------------------------
\* C2: a handler's creation transaction is submitted, and its address field is
\* set, only while args.bridgeAddress is a valid address, and that address is
\* the one the caller supplied or the one a Bridge deployment of this
\* invocation recorded; the handler is constructed with it.
C2_HandlerNeedsValidBridge ==
  /\ \A i \in 1..Len(txs) :
       txs[i].kind \in Handlers
         => /\ isValidAddress(txs[i].bridge)
            /\ txs[i].bridge = args.bridgeAddress
            /\ \/ txs[i].bridge = supplied
               \/ \E j \in 1..(i - 1) :
                    txs[j].kind = "bridge" /\ txs[j].address = txs[i].bridge
  /\ \A h \in Handlers :
       (h \in pending \/ args[FieldOf[h]] # Undefined)
         => /\ isValidAddress(args.bridgeAddress)
            /\ \E i \in 1..Len(txs) : txs[i].kind = h
  /\ (pc \in Handlers /\ phase = "sent") => isValidAddress(args.bridgeAddress)

C2_Witness ==
  /\ Truthy(args.erc20HandlerContract)
  /\ Truthy(args.genericHandlerContract)
  /\ args.bridgeAddress = supplied

\* C3: a handler whose deploy function finds no valid bridge address is the
\* only thing skipped: the step logs its diagnostic, submits nothing, leaves
\* args and the error untouched and hands control to the next requested kind
\* or to the final balance query; at the end of such an invocation every
\* requested kind other than the skipped handlers is deployed, the skipped
\* handlers' fields are unset, and NoTargetSpecified is never the outcome.
C3_SkipStep(h) ==
  (pc = h /\ phase = "call" /\ ~isValidAddress(args.bridgeAddress))
    => /\ console' = Append(console, DiagOf[h])
       /\ error' = "none"
       /\ pc' \in (Kinds \ {h}) \cup {"endBalance"}
       /\ phase' = "call"
       /\ UNCHANGED <<args, txs, calls, pending, writes>>

Skipped(k) == k \in Handlers /\ InConsole(DiagOf[k])

C3_SkipIsIsolated ==
  /\ [][\A h \in Handlers : C3_SkipStep(h)]_vars
  /\ [](\A h \in Handlers :
          Skipped(h)
            => /\ args[FieldOf[h]] = Undefined
               /\ error # NoTargetSpecified
               /\ \A i \in 1..Len(txs) : txs[i].kind # h
               /\ pc = "done"
                    => /\ summary[LineOf[h]] = NotDeployed
                       /\ \A k \in Kinds :
                            (Explicit /\ IsRequested(k) /\ ~Skipped(k))
                              => DeployedHere(k))

C3_Witness ==
  /\ pc = "done"
  /\ Explicit
  /\ Selection = {"erc20Handler"}
  /\ Skipped("erc20Handler")
  /\ args.erc20HandlerContract = Undefined
  /\ error = "none"

----------------------------------------------------------------------------
C5_ExplicitOrder ==
  (Explicit /\ Selection # {})
    => /\ IsPrefix(attempts, RequestedSeq)
       /\ \A i, j \in 1..Len(attempts) : attempts[i] = attempts[j] => i = j
       /\ \A i, j \in 1..Len(txs) : txs[i].kind = txs[j].kind => i = j
       /\ \A i \in 1..Len(txs) : IsRequested(txs[i].kind)
       /\ \A i, j \in 1..Len(txs) :
            i < j => IndexOf(Canonical, txs[i].kind) < IndexOf(Canonical, txs[j].kind)
       /\ \A i \in 1..Len(txs) : \E j \in 1..Len(attempts) : attempts[j] = txs[i].kind
       /\ pc \in Kinds => (attempts # <<>> /\ attempts[Len(attempts)] = pc)
       /\ pc \in {"endBalance", "done"} => attempts = RequestedSeq

C5_Witness ==
  /\ Explicit
  /\ pc = "done"
  /\ attempts = <<"bridge", "erc20", "asset">>
  /\ TxKinds = attempts

\* C6: a failed network call stops the invocation: the step that fails leaves
\* args as it was, the action is then at its end with the error set, nothing
\* is called, submitted or recorded afterwards, and no call is ever issued a
\* second time (the balance is queried once at the start and once at the end).
C6_FailStop ==
  /\ [](error # "none" => pc = "failed")
  /\ [][error' # "none" => args' = args]_vars
  /\ [][error # "none" => UNCHANGED <<args, calls, txs, attempts, writes, summary, config>>]_vars
  /\ [](error = "network" => calls # <<>>)
  /\ [](\A i, j \in 1..Len(calls) :
          (calls[i] = calls[j] /\ i < j)
            => (calls[i] = GetBalanceCall /\ i = 1 /\ j = Len(calls)
                /\ pc \in {"done", "failed"}))

C6_Witness ==
  /\ pc = "failed"
  /\ error = "network"
  /\ DeployedHere("bridge")
  /\ DeployedHere("erc20Handler")
  /\ "genericHandler" \in pending
  /\ args.genericHandlerContract = Undefined

\* C7: at most one creation transaction is pending at any time, it is the one
\* of the deploy function that is running (or that failed waiting for it),
\* and every transaction submitted before the latest one is mined and its
\* address recorded.
C7_OnePending ==
  /\ Cardinality(pending) <= 1
  /\ \A k \in pending :
       /\ txs # <<>>
       /\ txs[Len(txs)].kind = k
       /\ \/ (pc = k /\ phase = "sent")
          \/ (pc = "failed" /\ error = "network")
  /\ \A i \in 1..(Len(txs) - 1) :
       /\ txs[i].kind \notin pending
       /\ args[FieldOf[txs[i].kind]] = txs[i].address
  /\ (pc \in Kinds /\ phase = "call") => pending = {}

C7_Witness ==
  /\ Len(txs) = 3
  /\ pending = {txs[3].kind}
  /\ pc = txs[3].kind
  /\ phase = "sent"

----------------------------------------------------------------------------
\* C8 (as stated): each of the five address fields is unset until it is
\* written, is written at most once, and holds, once written, the address of
\* its own kind's confirmed deployment.
C8_Original ==
  \A k \in Kinds :
    /\ writes[FieldOf[k]] <= 1
    /\ writes[FieldOf[k]] = 0 => ~Truthy(args[FieldOf[k]])
    /\ writes[FieldOf[k]] = 1 => DeployedHere(k)

\* A step that changes the address field of kind k is the confirmation of
\* k's own deploy call.
C8_WriteStep(k) ==
  args'[FieldOf[k]] # args[FieldOf[k]]
    => /\ pc = k
       /\ phase = "sent"
       /\ k \in pending
       /\ k \notin pending'
       /\ writes'[FieldOf[k]] = writes[FieldOf[k]] + 1
       /\ calls' = Append(calls, [op |-> "deployed", kind |-> k])
       /\ args'[FieldOf[k]] = txs[Len(txs)].address
       /\ txs[Len(txs)].kind = k

\* C8 (amended): the erc20-handler, generic-handler, erc20-token and
\* asset-store fields are unset at the start, and the bridge field starts as
\* the value of --bridgeAddress (the empty string unless the caller supplied
\* one); every field is written at most once, only by the step in which its
\* own kind's deploy call confirms, and a Bridge deployment overwrites a
\* supplied bridge address.
C8_WrittenOnceByOwnDeploy ==
  /\ [](\A k \in Kinds :
          /\ writes[FieldOf[k]] <= 1
          /\ writes[FieldOf[k]] = 0
               => args[FieldOf[k]] = (IF k = "bridge" THEN supplied ELSE Undefined)
          /\ writes[FieldOf[k]] = 1 => DeployedHere(k))
  /\ [][\A k \in Kinds : C8_WriteStep(k)]_vars

C8_Witness ==
  /\ isValidAddress(supplied)
  /\ writes["bridgeAddress"] = 1
  /\ args.bridgeAddress # supplied
  /\ \E i \in 1..Len(txs) : txs[i].kind = "bridge" /\ txs[i].address = args.bridgeAddress

\* C9 (as stated): a line of the summary shows an address only if that kind
\* was deployed in this invocation; with no confirmed creation transaction
\* every line shows "Not Deployed".
C9_Original ==
  pc = "done"
    => \A k \in Kinds : summary[LineOf[k]] # NotDeployed => DeployedHere(k)

\* C9 (amended): the Erc20 Handler, Generic Handler, Erc20 and Chain Asset
\* lines show the address deployed in this invocation and "Not Deployed"
\* otherwise; the Bridge line shows the bridge address of the context: the
\* freshly deployed one, else the value of --bridgeAddress as supplied (valid
\* or not), and "Not Deployed" only when Bridge was not deployed and no
\* --bridgeAddress was given.
C9_SummaryLines ==
  /\ pc = "done"
       => /\ \A k \in Kinds \ {"bridge"} :
               summary[LineOf[k]] =
                 (IF writes[FieldOf[k]] = 1 THEN args[FieldOf[k]] ELSE NotDeployed)
          /\ \A k \in Kinds : summary[LineOf[k]] # NotDeployed
               => (DeployedHere(k) \/ (k = "bridge" /\ summary.Bridge = supplied))
          /\ summary.Bridge =
               (IF writes["bridgeAddress"] = 1 THEN args.bridgeAddress
                ELSE IF supplied = <<>> THEN NotDeployed ELSE supplied)
  /\ pc # "done" => summary = NoSummary

C9_Witness ==
  /\ pc = "done"
  /\ txs = <<>>
  /\ Skipped("erc20Handler")
  /\ Skipped("genericHandler")
  /\ summary.Bridge = supplied
  /\ summary.Erc20Handler = NotDeployed

\* C10: under an explicit selection a handler is constructed with the
\* caller-supplied bridge address exactly when bridge is not selected; when
\* bridge is selected the handlers are constructed with the address its
\* deployment recorded, and the summary and the config show that address and
\* not the supplied one.
C10_BridgeAddressUsed ==
  Explicit
    => /\ \A i \in 1..Len(txs) :
            txs[i].kind \in Handlers
              => /\ (txs[i].bridge = supplied) <=> ~args.bridge
                 /\ args.bridge
                      => /\ txs[1].kind = "bridge"
                         /\ txs[i].bridge = txs[1].address
                         /\ i > 1
       /\ (pc = "done" /\ args.bridge)
            => /\ summary.Bridge = txs[1].address
               /\ summary.Bridge # supplied
               /\ args.config
                    => (config.bridge = txs[1].address /\ config.bridge # supplied)
       /\ (pc = "done" /\ ~args.bridge)
            => (args.config => config.bridge = supplied)
       /\ (pc = "done" /\ ~args.config) => config = NoConfig

C10_Witness ==
  /\ Explicit
  /\ args.bridge
  /\ args.config
  /\ isValidAddress(supplied)
  /\ pc = "done"
  /\ DeployedHere("erc20Handler")
  /\ DeployedHere("genericHandler")
  /\ config.bridge = txs[1].address

====
